---- MODULE Spec2Model ----
(***************************************************************************)
(* A model of lecha_albums_bot.py: the Telegram bot that records music     *)
(* releases.  The state is the in-memory ledger DATA, the JSON file behind *)
(* it, the two ConversationHandler state tables, the per-user user_data    *)
(* dictionaries and the announcement messages (with their inline           *)
(* keyboards) the bot has sent.  One action per handler registered in      *)
(* main(); the dispatcher's routing (first matching handler of group 0     *)
(* wins, a ConversationHandler tries the handlers of its current state     *)
(* before its fallbacks) is the guard of each action.                      *)
(*                                                                         *)
(* Python values: a str is a sequence of one-character strings, a list is  *)
(* a sequence, a dict is a function whose DOMAIN is its key set (so a      *)
(* missing key is a missing key), an int that may share a field with a str *)
(* (a record's 'tag') is wrapped by PyInt / PyStr.                         *)
(***************************************************************************)
EXTENDS Integers, Sequences, FiniteSets, TLC

\* ------------------------------------------------------------------ bounds

\* Updates (messages and button presses) the dispatcher handles in one run.
MaxUpdates == 8

\* ------------------------------------------------------- Python containers

EmptyDict == [k \in {} |-> k]
\* d[k] = v
Put(d, k, v) == [x \in DOMAIN d \cup {k} |-> IF x = k THEN v ELSE d[x]]
\* del d[k] / d.pop(k, None)
Remove(d, k) == [x \in DOMAIN d \ {k} |-> d[x]]
\* list[i] with Python's 0-based index
Item(list, i) == list[i + 1]
\* list[i] = v
SetItem(list, i, v) == [list EXCEPT ![i + 1] = v]

PyInt(n) == <<"int", n>>
PyStr(s) == <<"str", s>>

\* ------------------------------------------------------------------ texts

Digits == {"0", "1", "2", "3", "4", "5", "6", "7", "8", "9"}

T_start == <<"/", "s", "t", "a", "r", "t">>
T_help == <<"/", "h", "e", "l", "p">>
T_new == <<"/", "n", "e", "w">>
T_cancel == <<"/", "c", "a", "n", "c", "e", "l">>
T_url == <<"h", "t", "t", "p", "s", ":", "/", "/", "a", ".", "b">>
T_rock_jazz == <<"r", "o", "c", "k", ",", " ", "j", "a", "z", "z">>
T_1999 == <<"1", "9", "9", "9">>
T_USA == <<"U", "S", "A">>

\* The text messages a user sends (/help changes no state and is left out).
Texts == {T_start, T_new, T_cancel, T_url, T_rock_jazz, T_1999, T_USA}

\* s[from:] (0-based)
Drop(s, n) == SubSeq(s, n + 1, Len(s))
\* s.startswith(p)
StartsWith(s, p) == Len(s) >= Len(p) /\ SubSeq(s, 1, Len(p)) = p

\* A search for the first character of the separator alone.
Find_FirstCharOnly(s, sep) ==
    LET hits == {i \in 0..(Len(s) - 1) : s[i + 1] = sep[1]}
    IN IF hits = {} THEN -1 ELSE CHOOSE i \in hits : \A j \in hits : i <= j

\* s.find(sep): the 0-based index of the first occurrence, -1 if none
Find(s, sep) ==
    LET hits == {i \in 0..(Len(s) - Len(sep)) : SubSeq(s, i + 1, i + Len(sep)) = sep}
    IN IF hits = {} THEN -1 ELSE CHOOSE i \in hits : \A j \in hits : i <= j

\* s.split(sep) for a non-empty separator
RECURSIVE split(_, _)
split(s, sep) ==
    LET i == Find(s, sep)
    IN IF i = -1 THEN <<s>>
       ELSE <<SubSeq(s, 1, i)>> \o split(Drop(s, i + Len(sep)), sep)

\* A check that takes any non-empty text for a number.
isdigit_NonEmpty(s) == Len(s) > 0

\* s.isdigit()
isdigit(s) == Len(s) > 0 /\ \A i \in 1..Len(s) : s[i] \in Digits

CommaSpace == <<",", " ">>

\* sep.join(list)
RECURSIVE join(_, _)
join(list, sep) ==
    IF Len(list) = 0 THEN <<>>
    ELSE IF Len(list) = 1 THEN list[1]
    ELSE list[1] \o sep \o join(Tail(list), sep)

\* --------------------------------------------- library predicates on texts

\* validators.url(text): a scheme, "://", and a host with a dot and no blank.
validators_url(s) ==
    /\ \/ StartsWith(s, <<"h", "t", "t", "p", "s", ":", "/", "/">>)
       \/ StartsWith(s, <<"h", "t", "t", "p", ":", "/", "/">>)
    /\ Find(Drop(s, Find(s, <<":", "/", "/">>) + 3), <<".">>) > 0
    /\ Find(s, <<" ">>) = -1

\* Filters.text: the message has a text (a command is a text too).
FiltersText(s) == Len(s) > 0

\* CommandHandler(name): the text starts with the bot command "/name".
IsCommand(s, cmd) ==
    /\ StartsWith(s, cmd)
    /\ IF Len(s) = Len(cmd) THEN TRUE ELSE s[Len(cmd) + 1] = " "

\* ----------------------------------------------------------- Link Resolver

None == <<"None">>
Some(v) == <<"Some", v>>
IsNone(x) == x[1] = "None"
Value(x) == x[2]

PageUrl == <<"s", "o", "n", "g", ".", "l", "i", "n", "k", "/", "a">>
K_spotify == <<"S", "P", "O", "T", "I", "F", "Y", "_", "A", "L", "B", "U", "M", ":", ":", "1">>
K_itunes1 == <<"I", "T", "U", "N", "E", "S", "_", "A", "L", "B", "U", "M", ":", ":", "2">>
K_itunes2 == <<"I", "T", "U", "N", "E", "S", "_", "S", "O", "N", "G", ":", ":", "3">>
Platform == <<"I", "T", "U", "N", "E", "S">>

Entity(title, artist) ==
    [title |-> title, artistName |-> artist, thumbnailUrl |-> <<"t", ".", "p", "n", "g">>]
E_spotify == Entity(<<"S">>, <<"Y">>)
E_itunes1 == Entity(<<"X">>, <<"Y">>)
E_itunes2 == Entity(<<"Z">>, <<"Y">>)

\* What api.song.link may answer: a non-success status ...
A_fail == [ok |-> FALSE, pageUrl |-> <<>>, entitiesByUniqueId |-> <<>>]
\* ... a body without an entity of the target platform ...
A_other ==
    [ok |-> TRUE, pageUrl |-> PageUrl,
     entitiesByUniqueId |-> << <<K_spotify, E_spotify>> >>]
\* ... or a body with entities of it, in the order the body lists them.
A_found ==
    [ok |-> TRUE, pageUrl |-> PageUrl,
     entitiesByUniqueId |->
         << <<K_spotify, E_spotify>>, <<K_itunes1, E_itunes1>>, <<K_itunes2, E_itunes2>> >>]

Answers == {A_fail, A_other, A_found}

\* k.split(':')[0].split('_')[0]
PlatformOf(k) == Item(split(Item(split(k, <<":">>), 0), <<"_">>), 0)

\* A loop without the break: the last entity of the target platform.
FirstOfPlatform_NoBreak(entities) ==
    LET hits == {i \in 1..Len(entities) : PlatformOf(entities[i][1]) = Platform}
    IN IF hits = {} THEN None
       ELSE Some(entities[CHOOSE i \in hits : \A j \in hits : i >= j][2])

\* The for loop of get_song_links: the first entity of the target platform.
FirstOfPlatform(entities) ==
    LET hits == {i \in 1..Len(entities) : PlatformOf(entities[i][1]) = Platform}
    IN IF hits = {} THEN None
       ELSE Some(entities[CHOOSE i \in hits : \A j \in hits : i <= j][2])

\* get_song_links: <<url, song_data>>
get_song_links(answer) ==
    IF ~answer.ok THEN <<None, None>>
    ELSE <<Some(answer.pageUrl), FirstOfPlatform(answer.entitiesByUniqueId)>>

\* The placeholder metadata of get_link.
Placeholder ==
    [title |-> <<"U", "p", "d", "a", "t", "e", " ", "t", "i", "t", "l", "e">>,
     artistName |-> <<"U", "p", "d", "a", "t", "e", " ", "a", "r", "t", "i", "s", "t">>,
     thumbnailUrl |-> <<"e", "m", "p", "t", "y", ".", "j", "p", "g">>]

\* ------------------------------------------------------------ Record Store

JStr(s) == [j |-> "string", v |-> s]
JNum(n) == [j |-> "number", v |-> n]
JArr(items) == [j |-> "array", v |-> items]
JObj(members) == [j |-> "object", v |-> members]

\* A serialization that writes every tag as a string.
dump_record_TagAsString(r) ==
    JObj([k \in DOMAIN r |->
        CASE k = "tag" -> JStr(r[k][2])
          [] k = "genres" -> JArr([i \in 1..Len(r[k]) |-> JStr(r[k][i])])
          [] k = "data" -> JObj([f \in DOMAIN r[k] |-> JStr(r[k][f])])
          [] OTHER -> JStr(r[k])])

\* json.dump of one record: 'tag' is a number or a string, 'genres' a list
\* of strings, 'data' an object of strings, every other field a string.
dump_record(r) ==
    JObj([k \in DOMAIN r |->
        CASE k = "tag" -> IF r[k][1] = "int" THEN JNum(r[k][2]) ELSE JStr(r[k][2])
          [] k = "genres" -> JArr([i \in 1..Len(r[k]) |-> JStr(r[k][i])])
          [] k = "data" -> JObj([f \in DOMAIN r[k] |-> JStr(r[k][f])])
          [] OTHER -> JStr(r[k])])

\* json.dump of the ledger
json_dump(data) ==
    JObj([u \in DOMAIN data |-> JArr([i \in 1..Len(data[u]) |-> dump_record(data[u][i])])])

load_record(o) ==
    [k \in DOMAIN o.v |->
        CASE k = "tag" -> IF o.v[k].j = "number" THEN PyInt(o.v[k].v) ELSE PyStr(o.v[k].v)
          [] k = "genres" -> [i \in 1..Len(o.v[k].v) |-> o.v[k].v[i].v]
          [] k = "data" -> [f \in DOMAIN o.v[k].v |-> o.v[k].v[f].v]
          [] OTHER -> o.v[k].v]

\* json.load of a ledger document
json_load(doc) ==
    [u \in DOMAIN doc.v |-> [i \in 1..Len(doc.v[u].v) |-> load_record(doc.v[u].v[i])]]

\* The backing file: absent, or holding the whole document, or (between the
\* open(filename, 'w') and the close of store_data) nothing or a prefix of it.
Absent == [content |-> "absent", doc |-> JObj(EmptyDict)]
Truncated == [content |-> "empty", doc |-> JObj(EmptyDict)]
Prefix(doc) == [content |-> "prefix", doc |-> doc]
Whole(doc) == [content |-> "whole", doc |-> doc]

\* The file handle of store_data.
Closed == [open |-> FALSE, doc |-> JObj(EmptyDict)]
Open(doc) == [open |-> TRUE, doc |-> doc]

\* ------------------------------------------------------------------- state

Users == {"u1", "u2"}

\* Where an update comes from: a user's private chat with the bot (named by
\* the user), or user u1 writing in a group chat the bot is a member of.
\* ConversationHandler keeps its state per (chat, user); user_data and DATA
\* are kept per user.
InGroup == "u1@group"
Senders == Users \cup {InGroup}

\* update.effective_user.id
user_id(c) == IF c = InGroup THEN "u1" ELSE c

LINK == 0
GENRES == 1
YEAR == 2
COUNTRY == 3
CAPTURE_EDITS == 4
\* ConversationHandler.END
END == -1

\* The callback data of the six field selectors of the edit menu.
Selectors == {"edit_tag", "edit_title", "edit_band", "edit_year", "edit_county", "edit_genres"}
\* The callback data of the other buttons.
Buttons == {"open_edit", "cancel", "done", "back"}

VARIABLES
    DATA,         \* the in-memory ledger: user id -> list of records
    file,         \* the content of CONFIG_FILENAME
    fd,           \* the file handle store_data holds while it writes
    create_conv,  \* create_conv_handler.conversations: user -> state
    edit_conv,    \* edit_conv_handler.conversations: user -> state
    user_data,    \* context.user_data of each user: a dict
    keyboards,    \* per user: index of an announced record -> keyboard shown
    replies,      \* the messages the bot sent while handling the last update
    raised,       \* the exception the last handler ended with, or "None"
    count,        \* updates handled so far (bounds the run)
    probe         \* a call of a function on its own: <<name, argument, result>>

vars == <<DATA, file, fd, create_conv, edit_conv, user_data, keyboards, replies, raised, count, probe>>

NoProbe == <<"none", <<>>, <<>> >>

\* A record of an earlier run of the process, already announced.
PriorRecord ==
    [url |-> PageUrl, data |-> E_itunes1, tag |-> PyInt(0),
     genres |-> <<T_USA>>, year |-> T_1999, country |-> T_USA]

\* The ledgers an earlier run may have left in the file.
PriorLedgers == {[u \in {"u1"} |-> <<PriorRecord>>]}

\* What main() may find at CONFIG_FILENAME.
PriorFiles == {Absent} \cup {Whole(json_dump(l)) : l \in PriorLedgers}

\* get_data: the ledger read, and the file as get_data leaves it.
get_data(f) ==
    IF f.content = "absent" THEN <<EmptyDict, Whole(json_dump(EmptyDict))>>
    ELSE <<json_load(f.doc), f>>

\* The announcements of an earlier run still shown in a user's chat.
PriorKeyboards(data, u) ==
    IF u \in DOMAIN data
    THEN [i \in {j \in 0..(Len(data[u]) - 1) : "country" \in DOMAIN Item(data[u], j)} |-> "main"]
    ELSE EmptyDict

Init ==
    \E f \in PriorFiles :
        /\ DATA = get_data(f)[1]
        /\ file = get_data(f)[2]
        /\ fd = Closed
        /\ create_conv = EmptyDict
        /\ edit_conv = EmptyDict
        /\ user_data = [u \in Users |-> EmptyDict]
        /\ keyboards = [c \in Senders |->
                IF c \in Users THEN PriorKeyboards(get_data(f)[1], c) ELSE EmptyDict]
        /\ replies = <<>>
        /\ raised = "None"
        /\ count = 0
        /\ probe = NoProbe

\* ---------------------------------------------------------------- helpers

\* The dispatcher takes the next update only when the last handler returned.
Idle == ~fd.open /\ count < MaxUpdates

\* The update changed the ledger, a conversation, user_data or a keyboard.
Counted == count' = count + 1
\* The update changed none of them.
NotCounted == UNCHANGED count

\* A store that serializes the ledger as it was before the handler ran.
store_data_Stale(data) == file' = Truncated /\ fd' = Open(json_dump(DATA))

\* store_data up to and including open(filename, 'w'): the file is truncated;
\* json.dump and the close follow in store_flush / store_close.
store_data(data) == file' = Truncated /\ fd' = Open(json_dump(data))

NoStore == UNCHANGED <<file, fd>>

\* ConversationHandler.update_state: END drops the key, None keeps the state.
update_state(conv, u, new_state) ==
    IF IsNone(new_state) THEN conv
    ELSE IF Value(new_state) = END THEN Remove(conv, u)
    ELSE Put(conv, u, Value(new_state))

InState(conv, u, s) == u \in DOMAIN conv /\ conv[u] = s

\* Neither CommandHandler('start') nor CommandHandler('help') takes the text.
PastCommands(t) == ~IsCommand(t, T_start) /\ ~IsCommand(t, T_help)

\* A dispatcher in which edit_conv_handler is tried before create_conv_handler.
PastCreate_EditFirst(u, t) == PastCommands(t)

\* create_conv_handler does not take the text: no conversation of the user
\* and no entry point matches.
PastCreate(u, t) == PastCommands(t) /\ u \notin DOMAIN create_conv /\ ~IsCommand(t, T_new)

\* An assignment that leaves the list holding the assigned record only.
SetField_KeepsOnlyRecord(data, u, tag, key, value) ==
    [data EXCEPT ![u] = <<Put(Item(data[u], tag), key, value)>>]

\* DATA[str(user.id)][tag][key] = value
SetField(data, u, tag, key, value) ==
    [data EXCEPT ![u] = SetItem(data[u], tag, Put(Item(data[u], tag), key, value))]

\* DATA[str(user.id)][tag]['data'][key] = value
SetDataField(data, u, tag, key, value) ==
    SetField(data, u, tag, "data", Put(Item(data[u], tag).data, key, value))

\* context.user_data["tag"] and DATA[str(user.id)][tag] can be read.
HasRecord(u) ==
    /\ "tag" \in DOMAIN user_data[u]
    /\ u \in DOMAIN DATA
    /\ user_data[u].tag < Len(DATA[u])

\* The exception the lookups of HasRecord end with when they fail.
LookupError(u) ==
    IF "tag" \notin DOMAIN user_data[u] \/ u \notin DOMAIN DATA THEN "KeyError" ELSE "IndexError"

\* generate_message_with_object: the announcement of the record at index i
\* is sent with the main keyboard.
Announced(kb, u, i) == [kb EXCEPT ![u] = Put(kb[u], i, "main")]

\* generate_text can render the record: " ".join(data.get('genres')) needs
\* the genres.
Renders(r) == "genres" \in DOMAIN r

\* ---------------------------------------------------------------- handlers

\* CommandHandler('start', start)
start(u, t) ==
    /\ Idle
    /\ UNCHANGED probe
    /\ IsCommand(t, T_start)
    /\ IF user_id(u) \notin DOMAIN DATA
       THEN DATA' = Put(DATA, user_id(u), <<>>) /\ store_data(DATA') /\ Counted
       ELSE UNCHANGED DATA /\ NoStore /\ NotCounted
    /\ replies' = <<"hello">>
    /\ raised' = "None"
    /\ UNCHANGED <<create_conv, edit_conv, user_data, keyboards>>

\* create_conv_handler, entry point CommandHandler('new', new_object)
new_object(u, t) ==
    /\ Idle
    /\ UNCHANGED probe
    /\ PastCommands(t)
    /\ u \notin DOMAIN create_conv
    /\ IsCommand(t, T_new)
    /\ replies' = <<"enter_link">>
    /\ raised' = "None"
    /\ create_conv' = update_state(create_conv, u, Some(LINK))
    /\ Counted
    /\ UNCHANGED <<DATA, file, fd, edit_conv, user_data, keyboards>>

\* A tag that counts from one instead of from zero.
NextTag_FromOne(list) == Len(list) + 1

\* tag = len(DATA[str(user.id)])
NextTag(list) == Len(list)

\* A resolution that takes the placeholder when either part is missing.
Resolved_EitherMissing(t, answer) ==
    LET r == get_song_links(answer)
    IN IF IsNone(r[1]) \/ IsNone(r[2])
       THEN <<Some(t), Some(Placeholder), <<"not_in_odesli">> >>
       ELSE <<r[1], r[2], <<>> >>

\* The resolution of get_link: <<url, data, messages sent>>; a resolver
\* result of (None, None) is replaced by the text and the placeholder.
Resolved(t, answer) ==
    LET r == get_song_links(answer)
    IN IF IsNone(r[1]) /\ IsNone(r[2])
       THEN <<Some(t), Some(Placeholder), <<"not_in_odesli">> >>
       ELSE <<r[1], r[2], <<>> >>

\* create_conv_handler, state LINK: MessageHandler(Filters.text, get_link)
get_link(u, t, answer) ==
    /\ Idle
    /\ UNCHANGED probe
    /\ InState(create_conv, u, LINK)
    /\ PastCommands(t)
    /\ FiltersText(t)
    /\ IF ~validators_url(t)
       THEN /\ replies' = <<"not_a_link">>
            /\ raised' = "None"
            /\ create_conv' = update_state(create_conv, u, Some(LINK))
            /\ UNCHANGED <<DATA, file, fd, user_data, count>>
       ELSE LET r == Resolved(t, answer)
            IN IF IsNone(r[2])
               THEN /\ replies' = r[3] \o <<"not_apple_music">>
                    /\ raised' = "None"
                    /\ create_conv' = update_state(create_conv, u, Some(LINK))
                    /\ UNCHANGED <<DATA, file, fd, user_data, count>>
               ELSE IF user_id(u) \notin DOMAIN DATA
               THEN /\ replies' = r[3]
                    /\ raised' = "KeyError"
                    /\ UNCHANGED <<DATA, file, fd, create_conv, user_data, count>>
               ELSE LET tag == NextTag(DATA[user_id(u)])
                    IN /\ user_data' = [user_data EXCEPT ![user_id(u)] = Put(@, "tag", tag)]
                       /\ DATA' = [DATA EXCEPT ![user_id(u)] = Append(@,
                              [url |-> Value(r[1]), data |-> Value(r[2]), tag |-> PyInt(tag)])]
                       /\ store_data(DATA')
                       /\ replies' = r[3] \o <<"send_genres">>
                       /\ raised' = "None"
                       /\ create_conv' = update_state(create_conv, u, Some(GENRES))
                       /\ Counted
    /\ UNCHANGED <<edit_conv, keyboards>>

\* create_conv_handler, state GENRES: MessageHandler(Filters.text, get_genres)
get_genres(u, t) ==
    /\ Idle
    /\ UNCHANGED probe
    /\ InState(create_conv, u, GENRES)
    /\ PastCommands(t)
    /\ FiltersText(t)
    /\ IF HasRecord(user_id(u))
       THEN /\ DATA' = SetField(DATA, user_id(u), user_data[user_id(u)].tag, "genres", split(t, CommaSpace))
            /\ store_data(DATA')
            /\ replies' = <<"send_year">>
            /\ raised' = "None"
            /\ create_conv' = update_state(create_conv, u, Some(YEAR))
            /\ Counted
       ELSE /\ raised' = LookupError(user_id(u))
            /\ replies' = <<>>
            /\ UNCHANGED <<DATA, file, fd, create_conv, count>>
    /\ UNCHANGED <<edit_conv, user_data, keyboards>>

\* create_conv_handler, state YEAR: MessageHandler(Filters.text, get_year)
get_year(u, t) ==
    /\ Idle
    /\ UNCHANGED probe
    /\ InState(create_conv, u, YEAR)
    /\ PastCommands(t)
    /\ FiltersText(t)
    /\ IF ~isdigit(t)
       THEN /\ replies' = <<"not_a_number">>
            /\ raised' = "None"
            /\ create_conv' = update_state(create_conv, u, Some(YEAR))
            /\ UNCHANGED <<DATA, file, fd, count>>
       ELSE IF HasRecord(user_id(u))
       THEN /\ DATA' = SetField(DATA, user_id(u), user_data[user_id(u)].tag, "year", t)
            /\ store_data(DATA')
            /\ replies' = <<"send_country">>
            /\ raised' = "None"
            /\ create_conv' = update_state(create_conv, u, Some(COUNTRY))
            /\ Counted
       ELSE /\ raised' = LookupError(user_id(u))
            /\ replies' = <<>>
            /\ UNCHANGED <<DATA, file, fd, create_conv, count>>
    /\ UNCHANGED <<edit_conv, user_data, keyboards>>

\* create_conv_handler, state COUNTRY: MessageHandler(Filters.text, get_country)
get_country(u, t) ==
    /\ Idle
    /\ UNCHANGED probe
    /\ InState(create_conv, u, COUNTRY)
    /\ PastCommands(t)
    /\ FiltersText(t)
    /\ IF HasRecord(user_id(u))
       THEN /\ DATA' = SetField(DATA, user_id(u), user_data[user_id(u)].tag, "country", t)
            /\ store_data(DATA')
            /\ Counted
            /\ IF Renders(Item(DATA'[user_id(u)], user_data[user_id(u)].tag))
               THEN /\ keyboards' = Announced(keyboards, u, user_data[user_id(u)].tag)
                    /\ replies' = <<"announcement">>
                    /\ raised' = "None"
                    /\ create_conv' = update_state(create_conv, u, Some(END))
               ELSE /\ raised' = "TypeError"
                    /\ replies' = <<>>
                    /\ UNCHANGED <<create_conv, keyboards>>
       ELSE /\ raised' = LookupError(user_id(u))
            /\ replies' = <<>>
            /\ UNCHANGED <<DATA, file, fd, create_conv, keyboards, count>>
    /\ UNCHANGED <<edit_conv, user_data>>

\* An if-chain that writes into the user's first record.
Edited_FirstRecord(data, u, tag, edit_state, t) ==
    CASE edit_state = "edit_tag" -> SetField(data, u, 0, "tag", PyStr(t))
      [] edit_state = "edit_title" -> SetDataField(data, u, 0, "title", t)
      [] edit_state = "edit_band" -> SetDataField(data, u, 0, "artistName", t)
      [] edit_state = "edit_year" -> SetField(data, u, 0, "year", t)
      [] edit_state = "edit_county" -> SetField(data, u, 0, "country", t)
      [] edit_state = "edit_genres" -> SetField(data, u, 0, "genres", split(t, CommaSpace))
      [] OTHER -> data

\* An if-chain whose 'edit_band' branch writes the title.
Edited_BandWritesTitle(data, u, tag, edit_state, t) ==
    CASE edit_state = "edit_tag" -> SetField(data, u, tag, "tag", PyStr(t))
      [] edit_state = "edit_title" -> SetDataField(data, u, tag, "title", t)
      [] edit_state = "edit_band" -> SetDataField(data, u, tag, "title", t)
      [] edit_state = "edit_year" -> SetField(data, u, tag, "year", t)
      [] edit_state = "edit_county" -> SetField(data, u, tag, "country", t)
      [] edit_state = "edit_genres" -> SetField(data, u, tag, "genres", split(t, CommaSpace))
      [] OTHER -> data

\* The record after capture_edits' if-chain on edit_state.
Edited(data, u, tag, edit_state, t) ==
    CASE edit_state = "edit_tag" -> SetField(data, u, tag, "tag", PyStr(t))
      [] edit_state = "edit_title" -> SetDataField(data, u, tag, "title", t)
      [] edit_state = "edit_band" -> SetDataField(data, u, tag, "artistName", t)
      [] edit_state = "edit_year" -> SetField(data, u, tag, "year", t)
      [] edit_state = "edit_county" -> SetField(data, u, tag, "country", t)
      [] edit_state = "edit_genres" -> SetField(data, u, tag, "genres", split(t, CommaSpace))
      [] OTHER -> data

\* An entry point that starts the edit from a user_data holding the selector
\* only.
process_edits_FreshSession(u, sel, i) ==
    /\ Idle
    /\ UNCHANGED probe
    /\ i \in DOMAIN keyboards[u] /\ keyboards[u][i] = "edit"
    /\ u \notin DOMAIN edit_conv
    /\ user_data' = [user_data EXCEPT ![user_id(u)] = Put(EmptyDict, "edit_state", sel)]
    /\ replies' = <<"enter_" \o sel>>
    /\ raised' = "None"
    /\ edit_conv' = update_state(edit_conv, u, Some(CAPTURE_EDITS))
    /\ Counted
    /\ UNCHANGED <<DATA, file, fd, create_conv, keyboards>>

\* edit_conv_handler, entry point CallbackQueryHandler(process_edits, '^edit.*$'):
\* a selector pressed on the edit keyboard of the announcement of record i.
process_edits(u, sel, i) ==
    /\ Idle
    /\ UNCHANGED probe
    /\ i \in DOMAIN keyboards[u] /\ keyboards[u][i] = "edit"
    /\ u \notin DOMAIN edit_conv
    /\ user_data' = [user_data EXCEPT ![user_id(u)] = Put(@, "edit_state", sel)]
    /\ replies' = <<"enter_" \o sel>>
    /\ raised' = "None"
    /\ edit_conv' = update_state(edit_conv, u, Some(CAPTURE_EDITS))
    /\ Counted
    /\ UNCHANGED <<DATA, file, fd, create_conv, keyboards>>

\* edit_conv_handler, state CAPTURE_EDITS: MessageHandler(Filters.text, capture_edits)
capture_edits(u, t) ==
    /\ Idle
    /\ UNCHANGED probe
    /\ InState(edit_conv, u, CAPTURE_EDITS)
    /\ PastCreate(u, t)
    /\ FiltersText(t)
    /\ IF HasRecord(user_id(u)) /\ "edit_state" \in DOMAIN user_data[user_id(u)]
       THEN /\ DATA' = Edited(DATA, user_id(u), user_data[user_id(u)].tag, user_data[user_id(u)].edit_state, t)
            /\ store_data(DATA')
            /\ Counted
            /\ IF Renders(Item(DATA'[user_id(u)], user_data[user_id(u)].tag))
               THEN /\ keyboards' = Announced(keyboards, u, user_data[user_id(u)].tag)
                    /\ replies' = <<"announcement">>
                    /\ raised' = "None"
                    /\ edit_conv' = update_state(edit_conv, u, Some(END))
               ELSE /\ raised' = "TypeError"
                    /\ replies' = <<>>
                    /\ UNCHANGED <<edit_conv, keyboards>>
       ELSE /\ raised' = IF HasRecord(user_id(u)) THEN "KeyError" ELSE LookupError(user_id(u))
            /\ replies' = <<>>
            /\ UNCHANGED <<DATA, file, fd, edit_conv, keyboards, count>>
    /\ UNCHANGED <<create_conv, user_data>>

\* CallbackQueryHandler(button): every callback query edit_conv_handler does
\* not take, pressed on the keyboard that shows its button.
button(u, data, i) ==
    /\ Idle
    /\ UNCHANGED probe
    /\ i \in DOMAIN keyboards[u]
    /\ \/ data \in {"open_edit", "cancel", "done"} /\ keyboards[u][i] = "main"
       \/ data = "back" /\ keyboards[u][i] = "edit"
       \/ data \in Selectors /\ keyboards[u][i] = "edit" /\ u \in DOMAIN edit_conv
    /\ keyboards' = CASE data = "open_edit" -> [keyboards EXCEPT ![u] = Put(@, i, "edit")]
                      [] data = "back" -> [keyboards EXCEPT ![u] = Put(@, i, "main")]
                      [] OTHER -> keyboards
    /\ replies' = IF data = "done" THEN <<"goodbye">> ELSE <<>>
    /\ raised' = "None"
    /\ IF data \in {"open_edit", "back"} THEN Counted ELSE NotCounted
    /\ UNCHANGED <<DATA, file, fd, create_conv, edit_conv, user_data>>

\* The fallback CommandHandler('cancel', cancel) of both conversation
\* handlers.  A fallback is tried only when no handler of the current state
\* takes the update; cancel returns None, which keeps the state.
cancel(u, t) ==
    /\ Idle
    /\ UNCHANGED probe
    /\ PastCommands(t)
    /\ \/ u \in DOMAIN create_conv /\ ~FiltersText(t)
       \/ PastCreate(u, t) /\ u \in DOMAIN edit_conv /\ ~FiltersText(t)
    /\ IsCommand(t, T_cancel)
    /\ replies' = <<"cancelled">>
    /\ raised' = "None"
    /\ NotCounted
    /\ create_conv' = IF u \in DOMAIN create_conv
                      THEN update_state(create_conv, u, None) ELSE create_conv
    /\ edit_conv' = IF u \in DOMAIN create_conv
                    THEN edit_conv ELSE update_state(edit_conv, u, None)
    /\ UNCHANGED <<DATA, file, fd, user_data, keyboards>>

\* json.dump wrote part of the document and the buffer reached the file.
store_flush ==
    /\ fd.open
    /\ file = Truncated
    /\ file' = Prefix(fd.doc)
    /\ UNCHANGED <<DATA, fd, create_conv, edit_conv, user_data, keyboards, replies, raised, count, probe>>

\* The with block of store_data ends: the whole document is in the file.
store_close ==
    /\ fd.open
    /\ file' = Whole(fd.doc)
    /\ fd' = Closed
    /\ UNCHANGED <<DATA, create_conv, edit_conv, user_data, keyboards, replies, raised, count, probe>>

\* The texts validators.url accepts.
UrlTexts == {t \in Texts : validators_url(t)}

\* get_link asks the resolver only for a text that is a URL.
Requested(t) == IF t \in UrlTexts THEN Answers ELSE {A_fail}

\* One text message of user u handled by the dispatcher.
Message(u, t) ==
    \/ start(u, t)
    \/ new_object(u, t)
    \/ \E answer \in Requested(t) : get_link(u, t, answer)
    \/ get_genres(u, t)
    \/ get_year(u, t)
    \/ get_country(u, t)
    \/ capture_edits(u, t)

\* One callback query of user u handled by the dispatcher.
Callback(u) ==
    \/ \E sel \in Selectors, i \in DOMAIN keyboards[u] : process_edits(u, sel, i)
    \/ \E data \in Buttons \cup Selectors, i \in DOMAIN keyboards[u] : button(u, data, i)

Next ==
    \/ \E u \in Users, t \in Texts : Message(u, t)
    \/ \E u \in Users : Callback(u)
    \/ store_flush
    \/ store_close

Spec == Init /\ [][Next]_vars

\* ------------------------------------------- functions checked on their own

\* The entities a lookup body is built from.
EntityPool ==
    { <<K_spotify, E_spotify>>, <<K_itunes1, E_itunes1>>, <<K_itunes2, E_itunes2>>,
      <<K_spotify \o <<"_">> \o Platform, E_spotify>> }

\* Bodies listing up to MaxEntities entities.
MaxEntities == 3
EntityLists == UNION {[1..n -> EntityPool] : n \in 0..MaxEntities}

\* The answers get_song_links is called on.
ResolverInputs ==
    {[ok |-> o, pageUrl |-> PageUrl, entitiesByUniqueId |-> es] :
        o \in BOOLEAN, es \in EntityLists}

call_get_song_links ==
    /\ probe = NoProbe
    /\ \E a \in ResolverInputs : probe' = <<"get_song_links", a, get_song_links(a)>>
    /\ UNCHANGED <<DATA, file, fd, create_conv, edit_conv, user_data, keyboards, replies, raised, count>>

\* The records a ledger is built from: complete, with a tag edited to a
\* string, without the fields of the later steps, with an empty genre list.
RecordPool ==
    { PriorRecord,
      [PriorRecord EXCEPT !.tag = PyStr(<<"7">>), !.genres = <<T_USA, <<"j">> >>],
      [url |-> T_url, data |-> Placeholder, tag |-> PyInt(1)],
      [url |-> T_url, data |-> Placeholder, tag |-> PyInt(2), genres |-> <<>>] }

\* Lists of up to MaxRecords records, and the ledgers of the users.
MaxRecords == 2
RecordLists == UNION {[1..n -> RecordPool] : n \in 0..MaxRecords}
Ledgers == UNION {[us -> RecordLists] : us \in SUBSET Users}

\* store_data(L) run to its end, then get_data on the same file.
call_store_then_get_data ==
    /\ probe = NoProbe
    /\ \E L \in Ledgers :
          probe' = <<"store_then_get_data", L, get_data(Whole(json_dump(L)))>>
    /\ UNCHANGED <<DATA, file, fd, create_conv, edit_conv, user_data, keyboards, replies, raised, count>>

\* get_data when there is no file.
call_get_data_absent ==
    /\ probe = NoProbe
    /\ probe' = <<"get_data_absent", Absent, get_data(Absent)>>
    /\ UNCHANGED <<DATA, file, fd, create_conv, edit_conv, user_data, keyboards, replies, raised, count>>

\* Genres of up to MaxGenreLen characters without the separator in them,
\* and lists of up to MaxGenres genres.
MaxGenreLen == 2
MaxGenres == 2
GenreChars == {"a", ",", " "}
Genres ==
    {g \in UNION {[1..n -> GenreChars] : n \in 0..MaxGenreLen} :
        \A i \in 1..(Len(g) - 1) : ~(g[i] = "," /\ g[i + 1] = " ")}
GenreLists == UNION {[1..n -> Genres] : n \in 0..MaxGenres}

\* A genre list joined with ", " and split as get_genres splits a text.
call_join_split ==
    /\ probe = NoProbe
    /\ \E G \in GenreLists :
          probe' = <<"join_split", G, split(join(G, CommaSpace), CommaSpace)>>
    /\ UNCHANGED <<DATA, file, fd, create_conv, edit_conv, user_data, keyboards, replies, raised, count>>

NextPure ==
    \/ call_get_song_links
    \/ call_store_then_get_data
    \/ call_get_data_absent
    \/ call_join_split

SpecPure == Init /\ [][NextPure]_vars

\* ------------------------------------------------- one user in two chats

\* The chats user u1 writes in.
ChatsOfOne == {"u1", InGroup}

NextChats ==
    \/ \E c \in ChatsOfOne, t \in Texts : Message(c, t)
    \/ \E c \in ChatsOfOne : Callback(c)
    \/ store_flush
    \/ store_close

SpecChats == Init /\ [][NextChats]_vars

\* ------------------------------------------------------------------ claims

\* A conversation of the user waits for input.
Waiting(u) == u \in DOMAIN create_conv \/ u \in DOMAIN edit_conv
WaitingAfter(u) == u \in DOMAIN create_conv' \/ u \in DOMAIN edit_conv'

\* The dispatcher handles the text message t of user u.
Handles(u, t) == Message(u, t) \/ cancel(u, t)

\* C1 (as claimed): whenever a user with a waiting conversation sends /cancel,
\* the cancel fallback answers it and the user has no waiting conversation
\* afterwards.
C1_CancelEndsSession ==
    [][\A u \in Users :
        (Waiting(u) /\ Handles(u, T_cancel))
            => (replies' = <<"cancelled">> /\ ~WaitingAfter(u))]_vars

\* The list of user u grows by at most one record in this step, and a record
\* it gains carries the list's length before the step as its tag.
AppendTagged(u) ==
    /\ u \in DOMAIN DATA'
    /\ Len(DATA'[u]) \in {Len(DATA[u]), Len(DATA[u]) + 1}
    /\ Len(DATA'[u]) = Len(DATA[u]) + 1
        => DATA'[u][Len(DATA'[u])].tag = PyInt(Len(DATA[u]))

\* C2 (as claimed): a record get_link appends carries the length of the list
\* before the append as its tag, and no step changes the tag of a record.
C2_TagNeverChanges ==
    [][\A u \in DOMAIN DATA :
        /\ AppendTagged(u)
        /\ \A i \in 1..Len(DATA[u]) : DATA'[u][i].tag = DATA[u][i].tag]_vars

\* C2 (amended): a record get_link appends carries the length of the list
\* before the append as its tag, and the tag of a record changes only when
\* capture_edits runs with edit_state 'edit_tag' for the record at the pinned
\* index, which replaces the tag by the text sent.
C2_TagChangesOnlyByTagEdit ==
    [][\A u \in DOMAIN DATA :
        /\ AppendTagged(u)
        /\ \A i \in 1..Len(DATA[u]) :
            DATA'[u][i].tag # DATA[u][i].tag
                => /\ InState(edit_conv, u, CAPTURE_EDITS)
                   /\ user_data[u].edit_state = "edit_tag"
                   /\ i = user_data[u].tag + 1
                   /\ \E t \in Texts : capture_edits(u, t) /\ DATA'[u][i].tag = PyStr(t)]_vars

\* C2: a second record, appended with tag 1, was completed and then had its
\* title edited, and still carries tag 1.
C2_Witness ==
    \E u \in DOMAIN DATA :
        /\ Len(DATA[u]) = 2
        /\ DATA[u][2].tag = PyInt(1)
        /\ "country" \in DOMAIN DATA[u][2]
        /\ DATA[u][2].data.title \in Texts

\* A text made of decimal digits only, and not empty.
AllDigits(t) == t # <<>> /\ \A i \in DOMAIN t : t[i] \in {"0", "1", "2", "3", "4", "5", "6", "7", "8", "9"}

\* The ledger after the step is the ledger before it with field k of the
\* record of user u at index i (0-based) set to v, and store_data writes it.
StoresField(u, i, k, v) ==
    /\ DOMAIN DATA' = DOMAIN DATA
    /\ \A w \in DOMAIN DATA \ {u} : DATA'[w] = DATA[w]
    /\ Len(DATA'[u]) = Len(DATA[u])
    /\ \A j \in 1..Len(DATA[u]) : j # i + 1 => DATA'[u][j] = DATA[u][j]
    /\ DOMAIN DATA'[u][i + 1] = DOMAIN DATA[u][i + 1] \cup {k}
    /\ DATA'[u][i + 1][k] = v
    /\ \A f \in DOMAIN DATA[u][i + 1] \ {k} : DATA'[u][i + 1][f] = DATA[u][i + 1][f]
    /\ fd' = Open(json_dump(DATA'))

\* C3: get_year stores an all-digit text verbatim as the year of the record
\* at the pinned tag, writes the ledger and moves to COUNTRY; any other text
\* it answers with the re-prompt, staying in YEAR with ledger and file as
\* they were.
C3_YearValidated ==
    [][\A u \in Users, t \in Texts :
        (InState(create_conv, u, YEAR) /\ get_year(u, t))
            => IF AllDigits(t)
               THEN /\ StoresField(u, user_data[u].tag, "year", t)
                    /\ InState(create_conv', u, COUNTRY)
                    /\ replies' = <<"send_country">>
               ELSE /\ replies' = <<"not_a_number">>
                    /\ InState(create_conv', u, YEAR)
                    /\ UNCHANGED <<DATA, file, fd>>]_vars

\* C3: a user waits in COUNTRY, the year "1999" is in the pinned record and
\* in the file.
C3_Witness ==
    \E u \in Users :
        /\ InState(create_conv, u, COUNTRY)
        /\ Item(DATA[u], user_data[u].tag).year = T_1999
        /\ file = Whole(json_dump(DATA))

\* A user without a ledger entry, conversation, user_data or announcement.
Fresh(u) ==
    /\ u \notin DOMAIN DATA
    /\ ~Waiting(u)
    /\ user_data[u] = EmptyDict
    /\ keyboards[u] = EmptyDict

\* C4 (as claimed): for a user with no prior interaction, each message of
\* /new, a URL resolved to (PageUrl, E_itunes1), "rock, jazz", "1999", "USA"
\* takes the session one state on, and the last leaves the session ended with
\* exactly the record {tag 0, url, data, genres [rock, jazz], year 1999,
\* country USA} in the user's list.
C4_HappyPath ==
    [][\A u \in Users :
        /\ (Fresh(u) /\ Handles(u, T_new))
            => (u \notin DOMAIN DATA' /\ InState(create_conv', u, LINK))
        /\ (u \notin DOMAIN DATA /\ InState(create_conv, u, LINK)
                /\ get_link(u, T_url, A_found))
            => /\ InState(create_conv', u, GENRES)
               /\ DATA'[u] = << [tag |-> PyInt(0), url |-> PageUrl, data |-> E_itunes1] >>
        /\ (InState(create_conv, u, GENRES) /\ Handles(u, T_rock_jazz))
            => /\ InState(create_conv', u, YEAR)
               /\ Item(DATA'[u], user_data[u].tag).genres = << <<"r", "o", "c", "k">>, <<"j", "a", "z", "z">> >>
        /\ (InState(create_conv, u, YEAR) /\ Handles(u, T_1999))
            => /\ InState(create_conv', u, COUNTRY)
               /\ Item(DATA'[u], user_data[u].tag).year = T_1999
        /\ (InState(create_conv, u, COUNTRY) /\ Handles(u, T_USA))
            => /\ u \notin DOMAIN create_conv'
               /\ Item(DATA'[u], user_data[u].tag).country = T_USA]_vars

\* The field of a record each selector of the edit menu names: a top-level
\* key, or a key of the record's 'data'.
FieldOf(sel) ==
    CASE sel = "edit_tag" -> <<"tag">>
      [] sel = "edit_title" -> <<"data", "title">>
      [] sel = "edit_band" -> <<"data", "artistName">>
      [] sel = "edit_year" -> <<"year">>
      [] sel = "edit_county" -> <<"country">>
      [] sel = "edit_genres" -> <<"genres">>

\* Record new is record old except, at most, in the field at path p.
SameExcept(old, new, p) ==
    /\ DOMAIN new = DOMAIN old \cup {p[1]}
    /\ \A k \in DOMAIN old \ {p[1]} : new[k] = old[k]
    /\ Len(p) = 2 =>
        /\ DOMAIN new.data = DOMAIN old.data \cup {p[2]}
        /\ \A k \in DOMAIN old.data \ {p[2]} : new.data[k] = old.data[k]

\* The value at path p of record r.
AtPath(r, p) == IF Len(p) = 2 THEN r[p[1]][p[2]] ELSE r[p[1]]

\* C5: capture_edits changes, in the whole ledger, only the field its
\* selector names, in the record of the sending user at the pinned tag: the
\* genres selector replaces the genre list by the text split at ", ", the tag
\* selector the tag, the other four their own field by the text; every other
\* field of that record, every other record and every other user's list stay
\* as they were.
C5_EditChangesOnlyItsField ==
    [][\A u \in Users, t \in Texts :
        (InState(edit_conv, u, CAPTURE_EDITS) /\ capture_edits(u, t))
            => IF DATA' = DATA /\ raised' # "None" THEN TRUE
               ELSE LET i == user_data[u].tag
                        p == FieldOf(user_data[u].edit_state)
                    IN /\ DOMAIN DATA' = DOMAIN DATA
                       /\ \A w \in DOMAIN DATA \ {u} : DATA'[w] = DATA[w]
                       /\ Len(DATA'[u]) = Len(DATA[u])
                       /\ \A j \in 1..Len(DATA[u]) : j # i + 1 => DATA'[u][j] = DATA[u][j]
                       /\ SameExcept(Item(DATA[u], i), Item(DATA'[u], i), p)
                       /\ AtPath(Item(DATA'[u], i), p) =
                            CASE p = <<"genres">> -> split(t, <<",", " ">>)
                              [] p = <<"tag">> -> PyStr(t)
                              [] OTHER -> t]_vars

\* C5: an edit with the genres selector has ended and left the list
\* [rock, jazz] in a record whose country is still "USA".
C5_Witness ==
    \E u \in Users :
        /\ "edit_state" \in DOMAIN user_data[u]
        /\ user_data[u].edit_state = "edit_genres"
        /\ u \notin DOMAIN edit_conv
        /\ replies = <<"announcement">>
        /\ Item(DATA[u], user_data[u].tag).genres = << <<"r", "o", "c", "k">>, <<"j", "a", "z", "z">> >>
        /\ Item(DATA[u], user_data[u].tag).country = T_USA

\* C6 (as claimed): at every instant the backing file holds the complete
\* serialization of a ledger, never an empty or partially written document.
C6_FileAlwaysWhole == file = Whole(file.doc)

\* C7 (as claimed): for a user in LINK who sends a valid URL, the step ends
\* in GENRES when resolution fails with a non-success status exactly if it
\* ends in GENRES when the lookup has no entity of the target platform.
C7_OnePolicy ==
    \A u \in Users :
        (ENABLED (get_link(u, T_url, A_fail) /\ InState(create_conv', u, GENRES)))
            <=> (ENABLED (get_link(u, T_url, A_other) /\ InState(create_conv', u, GENRES)))

\* C7 (amended): the two causes are handled by two policies.  After a
\* non-success status get_link announces the failure and goes on with the
\* placeholder: for a user with a ledger entry it appends the record {url:
\* the text sent, data: placeholder, tag}, writes the ledger and moves to
\* GENRES; for a user without one it raises KeyError and leaves ledger, file
\* and session as they were.  After a lookup without an entity of the target
\* platform it rejects the link, appends nothing and stays in LINK.
C7_PolicyPerCause ==
    [][\A u \in Users :
        /\ (InState(create_conv, u, LINK) /\ get_link(u, T_url, A_fail))
            => /\ replies'[1] = "not_in_odesli"
               /\ IF u \in DOMAIN DATA
                  THEN /\ DATA' = [DATA EXCEPT ![u] = Append(@,
                              [url |-> T_url, data |-> Placeholder, tag |-> PyInt(Len(DATA[u]))])]
                       /\ fd' = Open(json_dump(DATA'))
                       /\ raised' = "None"
                       /\ InState(create_conv', u, GENRES)
                  ELSE /\ raised' = "KeyError"
                       /\ InState(create_conv', u, LINK)
                       /\ UNCHANGED <<DATA, file, fd>>
        /\ (InState(create_conv, u, LINK) /\ get_link(u, T_url, A_other))
            => /\ replies' = <<"not_apple_music">>
               /\ raised' = "None"
               /\ InState(create_conv', u, LINK)
               /\ UNCHANGED <<DATA, file, fd, user_data>>]_vars

\* C7: one user waits in GENRES with a placeholder record for the URL sent,
\* after which the other user's link was rejected in LINK.
C7_Witness ==
    \E u, w \in Users :
        /\ InState(create_conv, u, GENRES)
        /\ u \in DOMAIN DATA
        /\ DATA[u][Len(DATA[u])].data = Placeholder
        /\ DATA[u][Len(DATA[u])].url = T_url
        /\ InState(create_conv, w, LINK)
        /\ replies = <<"not_apple_music">>

\* The positions of the entities whose key starts with the target platform
\* and an underscore.
OfPlatform(entities) ==
    {i \in 1..Len(entities) : StartsWith(entities[i][1], <<"I", "T", "U", "N", "E", "S", "_">>)}

\* The entity at the least position of a non-empty set of positions.
EntityAtLeast(entities, hits) == entities[CHOOSE i \in hits : \A j \in hits : i <= j][2]

\* C8 (as claimed): the resolver returns (None, None) on a non-success status
\* and on a body without an entity of the target platform; otherwise it
\* returns the page URL with the first entity of the target platform.
C8_NullPairWithoutEntity ==
    probe[1] = "get_song_links"
        => LET a == probe[2]
               hits == OfPlatform(a.entitiesByUniqueId)
           IN IF ~a.ok \/ hits = {}
              THEN probe[3] = <<None, None>>
              ELSE probe[3] = <<Some(a.pageUrl), Some(EntityAtLeast(a.entitiesByUniqueId, hits))>>

\* C8 (amended): the resolver returns (None, None) only on a non-success
\* status; on a body without an entity of the target platform it returns the
\* page URL with None; otherwise the page URL with the first entity of the
\* target platform.
C8_NullPairOnlyOnFailure ==
    probe[1] = "get_song_links"
        => LET a == probe[2]
               hits == OfPlatform(a.entitiesByUniqueId)
           IN IF ~a.ok THEN probe[3] = <<None, None>>
              ELSE IF hits = {} THEN probe[3] = <<Some(a.pageUrl), None>>
              ELSE probe[3] = <<Some(a.pageUrl), Some(EntityAtLeast(a.entitiesByUniqueId, hits))>>

\* C8: the resolver was called on a body listing two entities of the target
\* platform after one of another and returned the page URL with the first.
C8_Witness == probe = <<"get_song_links", A_found, <<Some(PageUrl), Some(E_itunes1)>> >>

\* C9 (as claimed): for a user without a ledger entry, /new opens the
\* session in LINK, and a valid resolvable URL sent next appends a record
\* with tag 0 to a list created for the user, writes the ledger and moves to
\* GENRES, no handler raising.
C9_FirstContactCreatesEntry ==
    [][\A u \in Users :
        /\ (u \notin DOMAIN DATA /\ ~Waiting(u) /\ Handles(u, T_new))
            => (raised' = "None" /\ InState(create_conv', u, LINK))
        /\ (u \notin DOMAIN DATA /\ get_link(u, T_url, A_found))
            => /\ raised' = "None"
               /\ u \in DOMAIN DATA'
               /\ DATA'[u] = << [tag |-> PyInt(0), url |-> PageUrl, data |-> E_itunes1] >>
               /\ fd' = Open(json_dump(DATA'))
               /\ InState(create_conv', u, GENRES)]_vars

\* C10 (as claimed): a user without a waiting conversation has neither a
\* pinned tag nor an edit_state.
C10_SessionStateDestroyed ==
    \A u \in Users : ~Waiting(u) => user_data[u] = EmptyDict

\* C10 (amended): only the conversation state is dropped when a conversation
\* ends; user_data outlives it.  No step removes a key of user_data;
\* get_country and capture_edits leave it as it was; the tag changes only
\* when get_link appends a record, the edit_state only when process_edits
\* starts an edit, so capture_edits reads the tag pinned by the last link of
\* an ended creation conversation.
C10_SessionStateOutlivesConversation ==
    [][\A u \in Users :
        /\ DOMAIN user_data[u] \subseteq DOMAIN user_data'[u]
        /\ \A t \in Texts :
            ((InState(create_conv, u, COUNTRY) /\ get_country(u, t))
                \/ (InState(edit_conv, u, CAPTURE_EDITS) /\ capture_edits(u, t)))
            => user_data' = user_data
        /\ user_data'[u] # user_data[u]
            => \/ /\ \E t \in Texts, a \in Answers : get_link(u, t, a)
                  /\ user_data'[u] = Put(user_data[u], "tag", Len(DATA[u]))
               \/ \E sel \in Selectors, i \in DOMAIN keyboards[u] :
                      /\ process_edits(u, sel, i)
                      /\ user_data'[u] = Put(user_data[u], "edit_state", sel)]_vars

\* C10: no conversation of the user waits, an edit has just been applied,
\* and user_data still holds the tag pinned by the creation conversation and
\* the selector of the edit.
C10_Witness ==
    \E u \in Users :
        /\ ~Waiting(u)
        /\ replies = <<"announcement">>
        /\ DOMAIN user_data[u] = {"tag", "edit_state"}
        /\ user_data[u].tag = Len(DATA[u]) - 1

\* C11: get_data after a completed store_data(L) returns L and leaves the
\* file holding the serialization of L; get_data without a file returns the
\* empty ledger and leaves the serialization of the empty ledger, "{}".
C11_StoreThenLoad ==
    /\ probe[1] = "store_then_get_data"
        => /\ probe[3][1] = probe[2]
           /\ probe[3][2].content = "whole"
           /\ json_load(probe[3][2].doc) = probe[2]
    /\ probe[1] = "get_data_absent"
        => /\ probe[3][1] = EmptyDict
           /\ probe[3][2] = [content |-> "whole", doc |-> [j |-> "object", v |-> EmptyDict]]

\* C11: a ledger of two users came back as stored: one list of a record
\* whose tag is a string and a record without genres, one list of a record
\* with an empty genre list.
C11_Witness ==
    /\ probe[1] = "store_then_get_data"
    /\ DOMAIN probe[2] = Users
    /\ probe[3][1] = probe[2]
    /\ Len(probe[2]["u1"]) = 2
    /\ probe[2]["u1"][1].tag = PyStr(<<"7">>)
    /\ "genres" \notin DOMAIN probe[2]["u1"][2]
    /\ Len(probe[2]["u2"]) = 1
    /\ "genres" \in DOMAIN probe[2]["u2"][1]
    /\ probe[2]["u2"][1].genres = <<>>

\* C12 (as claimed): every list of genres without ", " in them, joined with
\* ", " and split on ", ", comes back as it was.
C12_JoinSplitIdentity == probe[1] = "join_split" => probe[3] = probe[2]

\* C12 (amended): every non-empty list of genres without ", " in them,
\* joined with ", " and split on ", ", comes back as it was; the empty list
\* comes back as the list of one empty genre.
C12_JoinSplitNonEmpty ==
    probe[1] = "join_split"
        => IF probe[2] = <<>> THEN probe[3] = << <<>> >> ELSE probe[3] = probe[2]

\* C12: the list ["a,", " a"], whose join holds a comma before the
\* separator and a blank after it, came back as it was.
C12_Witness == probe = <<"join_split", << <<"a", ",">>, <<" ", "a">> >>, << <<"a", ",">>, <<" ", "a">> >> >>

\* C13 (as claimed): whenever a user with a waiting conversation sends
\* /cancel, the ledger in memory and the file are after the step as they
\* were before it.
C13_CancelKeepsLedger ==
    [][\A u \in Users :
        (Waiting(u) /\ Handles(u, T_cancel)) => UNCHANGED <<DATA, file, fd>>]_vars

\* C14 (as claimed): in LINK, a text get_link takes that is not a URL is
\* answered with the rejection, the session stays in LINK, and ledger and
\* file stay as they were, however many such texts came before; a valid
\* resolvable URL sent in LINK appends one record to the user's list and
\* moves the session to GENRES.
C14_InvalidLinkRetries ==
    [][\A u \in Users :
        InState(create_conv, u, LINK)
            => /\ \A t \in Texts \ UrlTexts :
                    get_link(u, t, A_fail)
                        => /\ replies' = <<"not_a_link">>
                           /\ InState(create_conv', u, LINK)
                           /\ UNCHANGED <<DATA, file, fd>>
               /\ get_link(u, T_url, A_found)
                    => /\ InState(create_conv', u, GENRES)
                       /\ u \in DOMAIN DATA'
                       /\ Len(DATA'[u]) = (IF u \in DOMAIN DATA THEN Len(DATA[u]) ELSE 0) + 1]_vars

\* The creation conversation of sender c is past the link step.
PastLink(c) == c \in DOMAIN create_conv /\ create_conv[c] \in {GENRES, YEAR, COUNTRY}

\* C15 (as claimed): while a creation conversation is past the link step,
\* the tag its get_link pinned stays as it is, and get_genres, get_year and
\* get_country of that conversation change no record but the one at that
\* tag and no list's length.
C15_TagPinnedToSession ==
    [][\A c \in Senders :
        PastLink(c)
            => /\ "tag" \in DOMAIN user_data[user_id(c)]
               /\ "tag" \in DOMAIN user_data'[user_id(c)]
               /\ user_data'[user_id(c)].tag = user_data[user_id(c)].tag
               /\ \A t \in Texts :
                    (get_genres(c, t) \/ get_year(c, t) \/ get_country(c, t))
                        => /\ DOMAIN DATA' = DOMAIN DATA
                           /\ \A w \in DOMAIN DATA :
                                /\ Len(DATA'[w]) = Len(DATA[w])
                                /\ \A j \in 1..Len(DATA[w]) :
                                     (w # user_id(c) \/ j # user_data[user_id(c)].tag + 1)
                                        => DATA'[w][j] = DATA[w][j]]_vars

\* C16 (as claimed): a selector chosen on an edit menu leaves the edit
\* conversation waiting in CAPTURE_EDITS; capture_edits runs only for a
\* conversation waiting there, and writes the text it takes, whatever it is,
\* into the field the selector names of the record at the pinned tag, writes
\* the ledger to the file and ends the conversation, no handler raising.
C16_OneEditThenEnd ==
    [][\A u \in Users :
        /\ \A sel \in Selectors, i \in DOMAIN keyboards[u] :
            process_edits(u, sel, i) => InState(edit_conv', u, CAPTURE_EDITS)
        /\ \A t \in Texts :
            (InState(edit_conv, u, CAPTURE_EDITS) /\ capture_edits(u, t))
                => /\ raised' = "None"
                   /\ AtPath(Item(DATA'[u], user_data[u].tag), FieldOf(user_data[u].edit_state)) =
                        CASE user_data[u].edit_state = "edit_genres" -> split(t, <<",", " ">>)
                          [] user_data[u].edit_state = "edit_tag" -> PyStr(t)
                          [] OTHER -> t
                   /\ fd' = Open(json_dump(DATA'))
                   /\ u \notin DOMAIN edit_conv'
        /\ \A t \in Texts :
            (u \notin DOMAIN edit_conv /\ Handles(u, t))
                => (DATA' = DATA \/ u \in DOMAIN create_conv \/ IsCommand(t, T_start))]_vars

\* The replies with which a handler rejects its input.
Rejections == {<<"not_a_link">>, <<"not_apple_music">>, <<"not_a_number">>}

\* C17: whenever no store is under way the file holds the serialization of
\* DATA; a step that changes DATA opens the file for the serialization of
\* the changed DATA; a step that rejects its input changes neither DATA nor
\* the file.
C17_FileFollowsLedger ==
    /\ [](~fd.open => (file = Whole(json_dump(DATA)) /\ json_load(file.doc) = DATA))
    /\ [][/\ DATA' # DATA => (file' = Truncated /\ fd' = Open(json_dump(DATA')))
          /\ replies' \in Rejections => UNCHANGED <<DATA, file, fd>>]_vars

\* C17: a handler has stored a ledger of two records and returned, after
\* which the other user's link was rejected.
C17_Witness ==
    /\ ~fd.open
    /\ replies \in Rejections
    /\ file = Whole(json_dump(DATA))
    /\ \E u \in DOMAIN DATA : Len(DATA[u]) = 2

\* C18: no step that changes the ledger removes a user's list or shortens
\* it, and the record at each index keeps its url (the one field no handler
\* assigns after the append);
\* a list grows only by one record, in a get_link step of its user; a step
\* of a handler run for user u that changes the ledger leaves the list of
\* every other user as it was and adds no list but that of u.
C18_ListsAppendOnly ==
    [][DATA' # DATA
        => /\ DOMAIN DATA \subseteq DOMAIN DATA'
           /\ \A w \in DOMAIN DATA :
                /\ Len(DATA'[w]) >= Len(DATA[w])
                /\ \A i \in 1..Len(DATA[w]) : DATA'[w][i].url = DATA[w][i].url
                /\ Len(DATA'[w]) # Len(DATA[w])
                    => /\ Len(DATA'[w]) = Len(DATA[w]) + 1
                       /\ InState(create_conv, w, LINK)
                       /\ \E t \in UrlTexts, a \in Answers : get_link(w, t, a)
           /\ \A u \in Users :
                IF /\ DOMAIN DATA' \subseteq DOMAIN DATA \cup {u}
                   /\ \A w \in DOMAIN DATA \ {u} : DATA'[w] = DATA[w]
                THEN TRUE
                ELSE ~((\E t \in Texts : Handles(u, t)) \/ Callback(u))]_vars

\* C18: a user's list has grown to two records and the second has its
\* genres, while the other user has a list of its own.
C18_Witness ==
    \E u, w \in DOMAIN DATA :
        /\ u # w
        /\ Len(DATA[u]) = 2
        /\ "genres" \in DOMAIN DATA[u][2]

\* C19: a selector pressed on one announcement's edit menu has the effect it
\* has when pressed on any other; the pinned tag is set only by a get_link
\* of the user, to the index of the record that get_link appends; and
\* capture_edits changes no record of the user but the one at the pinned tag.
C19_EditGoesToPinnedRecord ==
    [][\A u \in Users :
        /\ \A sel \in Selectors, i \in DOMAIN keyboards[u], j \in DOMAIN keyboards[u] :
            (process_edits(u, sel, i) /\ keyboards[u][j] = "edit") => process_edits(u, sel, j)
        /\ ("tag" \in DOMAIN user_data'[u] /\ user_data'[u] # user_data[u]
                /\ ("tag" \in DOMAIN user_data[u] => user_data'[u].tag # user_data[u].tag))
            => /\ InState(create_conv, u, LINK)
               /\ \E t \in UrlTexts, a \in Answers : get_link(u, t, a)
               /\ user_data'[u].tag = Len(DATA[u])
               /\ Len(DATA'[u]) = Len(DATA[u]) + 1
        /\ \A t \in Texts :
            (DATA' # DATA /\ InState(edit_conv, u, CAPTURE_EDITS) /\ capture_edits(u, t))
                => \A k \in 1..Len(DATA[u]) :
                      DATA'[u][k] # DATA[u][k] => k = user_data[u].tag + 1]_vars

\* C19: the record of an earlier run (A) is as it was and its announcement
\* shows the edit menu, the only one opened; the record created after it (B),
\* the one at the pinned tag, has had its title replaced by the edit.
C19_Witness ==
    \E u \in Users :
        /\ u \in DOMAIN DATA
        /\ Len(DATA[u]) = 2
        /\ DATA[u][1] = PriorRecord
        /\ DOMAIN keyboards[u] = {0, 1}
        /\ keyboards[u][0] = "edit"
        /\ keyboards[u][1] = "main"
        /\ user_data[u] = [tag |-> 1, edit_state |-> "edit_title"]
        /\ u \notin DOMAIN edit_conv
        /\ DATA[u][2].data.title \in Texts

\* C20: capture_edits runs only for a user without a creation conversation,
\* and then a pinned tag is the index of a record that has its genres, year
\* and country; while a creation conversation of the user waits, a text the
\* user sends leaves a waiting edit conversation waiting.
C20_EditWaitsForCreation ==
    [][\A u \in Users :
        /\ IF /\ u \notin DOMAIN create_conv
              /\ "tag" \in DOMAIN user_data[u]
                    => /\ u \in DOMAIN DATA
                       /\ user_data[u].tag < Len(DATA[u])
                       /\ {"genres", "year", "country"} \subseteq DOMAIN Item(DATA[u], user_data[u].tag)
           THEN TRUE
           ELSE \A t \in Texts : ~(InState(edit_conv, u, CAPTURE_EDITS) /\ capture_edits(u, t))
        /\ IF /\ u \in DOMAIN create_conv
              /\ InState(edit_conv, u, CAPTURE_EDITS)
              /\ ~InState(edit_conv', u, CAPTURE_EDITS)
           THEN \A t \in Texts : ~Handles(u, t)
           ELSE TRUE]_vars

\* C20: get_genres has taken a text of a user whose edit conversation waits
\* in CAPTURE_EDITS, and the edit still waits.
C20_Witness ==
    \E u \in Users :
        /\ InState(edit_conv, u, CAPTURE_EDITS)
        /\ InState(create_conv, u, YEAR)
        /\ replies = <<"send_year">>
        /\ "genres" \in DOMAIN Item(DATA[u], user_data[u].tag)
        /\ "year" \notin DOMAIN Item(DATA[u], user_data[u].tag)

====
